---- MODULE Spec2Model ----
(***************************************************************************)
(* Model of src/bot.py: the RSI trading loop (lines 231-260), do_trade     *)
(* (lines 182-228) and the account / log files they read and write.        *)
(*                                                                         *)
(* The exchange, the indicator library and the file system are the         *)
(* environment: every call into them either returns one of the values      *)
(* listed below or raises.  RSI readings are floats in the source; the     *)
(* model keeps one integer reading per region the comparisons can tell     *)
(* apart, plus NaN.  The docstring of trade_log (line 153) is indented by  *)
(* one column too many; the model reads the function as the body at        *)
(* lines 165-179 is evidently meant.                                       *)
(***************************************************************************)
EXTENDS Integers, Sequences, FiniteSets, TLC

VARIABLES
    pc,            \* position of the script: "top", "rsi", "poll", "sleep", "handler", "exit"
    account_file,  \* content of the file at account_path (NoFile when absent)
    account,       \* the dict bound to `account` (line 241)
    rsi,           \* module variable rsi
    old_rsi,       \* module variable old_rsi
    side,          \* do_trade's parameter side ("none" outside do_trade)
    order,         \* do_trade's local `order`
    trade_file,    \* the trade log: for each day, the file of that day
    today,         \* the calendar day datetime.now() gives
    log_file,      \* lines appended to the activity log, in order
    exchange,      \* sides of the orders the exchange accepted, in order
    cycle,         \* number of iterations started
    slept,         \* a time.sleep(3) completed since the last iteration ended
    filled,        \* number of orders whose status was observed FILLED
    flips,         \* number of times the persisted is_buying changed value
    cyc,           \* what happened so far in the current iteration
    prev,          \* how the previous iteration ended
    fresh,         \* the run started without an account file
    phase,         \* crossings seen so far in the readings consumed
    trades_done    \* the trade_log calls that returned, in order

vars == <<pc, account_file, account, rsi, old_rsi, side, order, trade_file,
          today, log_file, exchange, cycle, slept, filled, flips, cyc, prev,
          fresh, phase, trades_done>>

----------------------------------------------------------------------------
(* Bounds *)

MaxCycles == 3
MaxLiveCycles == 2
MaxDays == 2
MaxFills == 2
MaxPrice == 3
MaxQty == 3

----------------------------------------------------------------------------
(* Program constants *)

entry == 38
exit == 78
asset == "BTCUSDT"

\* the quantity of lines 250 and 254, as the f-string of line 179 prints it
quantity == "0.001"

\* The undefined reading ta.rsi gives while it has too few samples.
NaN == -1

\* One reading below entry, entry itself, one between the thresholds, exit
\* itself, one above exit, and NaN.
RSIValues == {NaN, 20, entry, 50, exit, 90}

\* Order statuses the exchange reports.
Statuses == {"NEW", "PARTIALLY_FILLED", "FILLED"}

\* A fill of an order: order["fills"][i], with price and qty as numbers.
Fill(p, q) == [price |-> p, qty |-> q]

\* The fills lists of the orders the exchange reports FILLED in a run: one
\* fill of quantity 1, and two fills of different prices and quantities.
ExchangeFills == {<<Fill(3, 1)>>, <<Fill(2, 1), Fill(3, 2)>>}

\* Every fills list of 1..MaxFills fills over the bounded prices and quantities.
FillLists ==
    UNION {[1..n -> [price : 1..MaxPrice, qty : 1..MaxQty]] : n \in 1..MaxFills}

\* The calendar days of a run.
Days == 1..MaxDays

\* Mutant of Lt: the undefined reading compared as the number that stands for it.
LtPlain(a, b) == a < b

\* Float comparison: every comparison with NaN is False.
Lt(a, b) == a # NaN /\ b # NaN /\ a < b
Gt(a, b) == a # NaN /\ b # NaN /\ a > b

----------------------------------------------------------------------------
(* The account file *)

NoFile == "<no file>"
Truncated == ""
JsonBuying == "{\"is_buying\": true, \"assets\": {}}"
JsonSelling == "{\"is_buying\": false, \"assets\": {}}"

\* json.dumps(account), lines 124 and 228
Dumps(acct) == IF acct.is_buying THEN JsonBuying ELSE JsonSelling

\* json.load(f) succeeds, line 241
Parses(text) == text \in {JsonBuying, JsonSelling}

\* Mutant of Loads: the dict already bound to `account` is kept, the file not re-read.
LoadsStale(text) ==
    IF account.bound THEN account ELSE [bound |-> TRUE, is_buying |-> (text = JsonBuying)]

\* json.load(f), line 241
Loads(text) == [bound |-> TRUE, is_buying |-> (text = JsonBuying)]

\* Mutant of DefaultAccount: the default account starts in selling mode.
DefaultSelling == [bound |-> TRUE, is_buying |-> FALSE]

\* create_account, lines 121-124
DefaultAccount == [bound |-> TRUE, is_buying |-> TRUE]

\* Mutant of FileAfterCreate: create_account runs whether the file exists or not.
FileAlwaysCreated(file) == Dumps(DefaultAccount)

\* lines 237-238: the file the load at line 240 opens
FileAfterCreate(file) == IF file = NoFile THEN Dumps(DefaultAccount) ELSE file

----------------------------------------------------------------------------
(* Signal evaluation, lines 248-254 *)

\* line 249
BuySignal(cur, old) == Lt(cur, entry) /\ Gt(old, entry)

\* line 253
SellSignal(cur, old) == Gt(cur, exit) /\ Lt(old, exit)

\* Mutant of Signal: the crossings evaluated without looking at the account mode.
SignalUngated(acct, cur, old) ==
    IF Lt(cur, entry) /\ Gt(old, entry) THEN "buy"
    ELSE IF Gt(cur, exit) /\ Lt(old, exit) THEN "sell" ELSE "none"

\* lines 248-254: the side do_trade is called with, "none" when it is not called
Signal(acct, cur, old) ==
    IF acct.is_buying
    THEN (IF BuySignal(cur, old) THEN "buy" ELSE "none")
    ELSE (IF SellSignal(cur, old) THEN "sell" ELSE "none")

\* lines 203 and 210: the assignment to account["is_buying"] right after the
\* submission call returns
FlipOnSubmit(acct, sd) == [acct EXCEPT !.is_buying = (sd # "buy")]

\* Mutant of FileWhileOpen: the flipped account written as soon as it is flipped.
FileWrittenOnSubmit(file, acct) == IF acct.is_buying THEN JsonBuying ELSE JsonSelling

\* lines 198-216: do_trade does not touch the account file before the while
\* loop is left
FileWhileOpen(file, acct) == file

\* the quantity and the cost of a fills list
RECURSIVE SumQty(_)
SumQty(fills) == IF fills = <<>> THEN 0 ELSE Head(fills).qty + SumQty(Tail(fills))
RECURSIVE SumCost(_)
SumCost(fills) ==
    IF fills = <<>> THEN 0
    ELSE Head(fills).price * Head(fills).qty + SumCost(Tail(fills))

\* lines 220-222: price_paid
RECURSIVE PricePaid(_)
PricePaid(fills) ==
    IF fills = <<>> THEN 0
    ELSE Head(fills).price * Head(fills).qty + PricePaid(Tail(fills))

\* a file of the trade log that does not exist (line 174)
NoTradeFile == [exists |-> FALSE, lines |-> <<>>]

\* line 176: the header line, as its comma-separated fields
HeaderLine == <<"sym", "side", "amount", "price">>

\* line 179: the row, as its comma-separated fields; a number is printed
TradeRow(sym, sd, amount, price) == <<sym, sd, amount, ToString(price)>>

\* lines 174-176: the file of the day after the header step
WithHeader(file) ==
    IF file.exists THEN file ELSE [exists |-> TRUE, lines |-> <<HeaderLine>>]

\* lines 174-179: the file of the day after trade_log(sym, side, price, amount)
TradeLog(file, sym, sd, price, amount) ==
    [WithHeader(file) EXCEPT !.lines = Append(@, TradeRow(sym, sd, amount, price))]

\* lines 174-179 when a file operation raises: nothing done ("none"), the
\* file created by the open at 175 and left empty ("empty"), or the header
\* written and the open at 178 failing ("header")
TradeLogPartly(file, how) ==
    CASE how = "empty" /\ ~file.exists -> [exists |-> TRUE, lines |-> <<>>]
      [] how = "header" -> WithHeader(file)
      [] OTHER -> file

\* line 245: old_rsi = rsi
\* Mutant of CarryForward: the previous reading is kept from before the failure.
CarryStale(old, cur) == old

CarryForward(old, cur) == cur

\* lines 259-260: where control goes once the handler's log call returned
AfterHandler == "top"

----------------------------------------------------------------------------
(* Observers of a run *)

\* the persisted is_buying changed value
Flipped(old, new) ==
    Parses(old) /\ Parses(new) /\ Loads(old).is_buying # Loads(new).is_buying

\* a pair of defined readings crosses a threshold: downward when the previous
\* one is at or above entry and the current one below it, upward when the
\* previous one is at or below exit and the current one above it
DownCross(old, cur) == old # NaN /\ cur # NaN /\ old >= entry /\ cur < entry
UpCross(old, cur) == old # NaN /\ cur # NaN /\ old <= exit /\ cur > exit

\* 0: no crossing below entry yet; 1: crossed below entry; 2: then crossed
\* above exit; 3: crossed below entry once more
NextPhase(p, old, cur) ==
    CASE p = 0 /\ DownCross(old, cur) -> 1
      [] p = 1 /\ UpCross(old, cur) -> 2
      [] p = 2 /\ DownCross(old, cur) -> 3
      [] OTHER -> p

NewCycle(file0) ==
    [file0 |-> file0, file |-> file0, trades |-> trade_file, loaded |-> FALSE,
     mode |-> TRUE, evald |-> FALSE, order |-> "none", calls |-> 0,
     err |-> "none", reads |-> 0, exch |-> Len(exchange), filled0 |-> filled,
     polled |-> FALSE]

NoOrder == [status |-> "none", fills |-> <<>>]

\* the fills the exchange may attach to an order of status st
FillsFor(st) == IF st = "FILLED" THEN ExchangeFills ELSE {<<>>}

----------------------------------------------------------------------------
(* State after lines 231-232, before the first iteration *)

Init ==
    /\ pc = "top"
    /\ account_file \in {NoFile, JsonBuying, JsonSelling}
    /\ fresh = (account_file = NoFile)
    /\ account = [bound |-> FALSE, is_buying |-> FALSE]
    /\ rsi \in RSIValues
    /\ old_rsi = rsi
    /\ side = "none"
    /\ order = NoOrder
    /\ trade_file = [d \in Days |-> NoTradeFile]
    /\ log_file = <<>>
    /\ exchange = <<>>
    /\ cycle = 0
    /\ slept = FALSE
    /\ filled = 0
    /\ flips = 0
    /\ cyc = [file0 |-> account_file, file |-> account_file,
              trades |-> trade_file,
              loaded |-> FALSE, mode |-> TRUE, evald |-> FALSE,
              order |-> "none", calls |-> 0, err |-> "none", reads |-> 0,
              exch |-> 0, filled0 |-> 0, polled |-> FALSE]
    /\ prev = [err |-> "none", loaded |-> FALSE, mode |-> TRUE, rsi |-> rsi,
               order |-> "none"]
    /\ phase = 0
    /\ today = 1
    /\ trades_done = <<>>

StartIteration ==
    /\ pc = "top"
    /\ cycle < MaxCycles
    /\ cycle' = cycle + 1
    /\ slept' = FALSE
    /\ prev' = [err |-> cyc.err, loaded |-> cyc.loaded, mode |-> cyc.mode,
                rsi |-> rsi, order |-> cyc.order]

----------------------------------------------------------------------------
(* Lines 237-243: create the account file when absent, then load it *)

LoadAccount ==
    /\ StartIteration
    /\ Parses(FileAfterCreate(account_file))
    /\ account_file' = FileAfterCreate(account_file)
    /\ account' = Loads(account_file')
    /\ cyc' = [NewCycle(account_file) EXCEPT !.file = account_file',
                 !.loaded = TRUE, !.mode = account'.is_buying]
    /\ pc' = "rsi"
    /\ UNCHANGED <<rsi, old_rsi, side, order, trade_file, today, log_file,
                   exchange, filled, flips, fresh, phase, trades_done>>

\* json.load raises on a file that holds no JSON document (line 241)
LoadAccountCorrupt ==
    /\ StartIteration
    /\ ~Parses(FileAfterCreate(account_file))
    /\ cyc' = [NewCycle(account_file) EXCEPT !.err = "load"]
    /\ pc' = "handler"
    /\ UNCHANGED <<account_file, account, rsi, old_rsi, side, order, trade_file,
                   today, log_file, exchange, filled, flips, fresh, phase,
                   trades_done>>

\* open or write raises: in create_account (the file stays absent, or is left
\* empty when the write fails after the open) or at line 240
LoadAccountFails(f) ==
    /\ StartIteration
    /\ f \in (IF account_file = NoFile THEN {NoFile, Truncated} ELSE {account_file})
    /\ account_file' = f
    /\ cyc' = [NewCycle(account_file) EXCEPT !.file = f, !.err = "load"]
    /\ pc' = "handler"
    /\ UNCHANGED <<account, rsi, old_rsi, side, order, trade_file, today,
                   log_file, exchange, filled, flips, fresh, phase, trades_done>>

----------------------------------------------------------------------------
(* Lines 245-254: take a reading, evaluate the signal, and on a signal enter
   do_trade and make the submission call (lines 198-212) *)

\* line 245 runs, then get_rsi raises at line 246
GetRsiFails ==
    /\ pc = "rsi"
    /\ old_rsi' = CarryForward(old_rsi, rsi)
    /\ cyc' = [cyc EXCEPT !.err = "rsi"]
    /\ pc' = "handler"
    /\ UNCHANGED <<account_file, account, rsi, side, order, trade_file, today,
                   log_file, exchange, cycle, slept, filled, flips, prev, fresh,
                   phase, trades_done>>

NoSignal(r) ==
    /\ pc = "rsi"
    /\ old_rsi' = CarryForward(old_rsi, rsi)
    /\ rsi' = r
    /\ Signal(account, rsi', old_rsi') = "none"
    /\ phase' = NextPhase(phase, rsi, r)
    /\ cyc' = [cyc EXCEPT !.evald = TRUE, !.reads = @ + 1]
    /\ pc' = "sleep"
    /\ UNCHANGED <<account_file, account, side, order, trade_file, today,
                   log_file, exchange, cycle, slept, filled, flips, prev, fresh,
                   trades_done>>

\* the submission call returns an order whose status is st
SubmitOrder(r, st, fl) ==
    /\ pc = "rsi"
    /\ old_rsi' = CarryForward(old_rsi, rsi)
    /\ rsi' = r
    /\ Signal(account, rsi', old_rsi') # "none"
    /\ fl \in FillsFor(st)
    /\ phase' = NextPhase(phase, rsi, r)
    /\ side' = Signal(account, rsi', old_rsi')
    /\ order' = [status |-> st, fills |-> fl]
    /\ exchange' = Append(exchange, side')
    /\ account' = FlipOnSubmit(account, side')
    /\ account_file' = FileWhileOpen(account_file, account')
    /\ filled' = IF st = "FILLED" THEN filled + 1 ELSE filled
    /\ cyc' = [cyc EXCEPT !.evald = TRUE, !.reads = @ + 1, !.order = side',
                 !.calls = @ + 1]
    /\ pc' = "poll"
    /\ UNCHANGED <<trade_file, today, log_file, cycle, slept, flips, prev, fresh,
                   trades_done>>

\* the submission call raises
SubmitFails(r) ==
    /\ pc = "rsi"
    /\ old_rsi' = CarryForward(old_rsi, rsi)
    /\ rsi' = r
    /\ Signal(account, rsi', old_rsi') # "none"
    /\ phase' = NextPhase(phase, rsi, r)
    /\ cyc' = [cyc EXCEPT !.evald = TRUE, !.reads = @ + 1,
                 !.order = Signal(account, rsi', old_rsi'), !.calls = @ + 1,
                 !.err = "submit"]
    /\ pc' = "handler"
    /\ UNCHANGED <<account_file, account, side, order, trade_file, today,
                   log_file, exchange, cycle, slept, filled, flips, prev, fresh,
                   trades_done>>

----------------------------------------------------------------------------
(* Lines 214-216: poll until the order is FILLED *)

\* Mutant of PollOrder: the status is asked for by submitting the order again.
PollResubmits(st, fl) ==
    /\ pc = "poll"
    /\ order.status # "FILLED"
    /\ fl \in FillsFor(st)
    /\ order' = [status |-> st, fills |-> fl]
    /\ exchange' = Append(exchange, side)
    /\ cyc' = [cyc EXCEPT !.calls = @ + 1, !.polled = TRUE]
    /\ filled' = IF st = "FILLED" THEN filled + 1 ELSE filled
    /\ UNCHANGED <<pc, account_file, account, rsi, old_rsi, side, trade_file,
                   today, log_file, cycle, slept, flips, prev, fresh, phase,
                   trades_done>>

\* Mutant of PollOrder: one status check, then do_trade returns as it is.
PollGivesUp(st, fl) ==
    /\ pc = "poll"
    /\ order.status # "FILLED"
    /\ fl \in FillsFor(st)
    /\ order' = NoOrder
    /\ side' = "none"
    /\ cyc' = [cyc EXCEPT !.polled = TRUE]
    /\ pc' = "sleep"
    /\ UNCHANGED <<account_file, account, rsi, old_rsi, trade_file, today,
                   log_file, exchange, cycle, slept, filled, flips, prev, fresh,
                   phase, trades_done>>

PollOrder(st, fl) ==
    /\ pc = "poll"
    /\ order.status # "FILLED"
    /\ fl \in FillsFor(st)
    /\ order' = [status |-> st, fills |-> fl]
    /\ account_file' = FileWhileOpen(account_file, account)
    /\ filled' = IF st = "FILLED" THEN filled + 1 ELSE filled
    /\ cyc' = [cyc EXCEPT !.polled = TRUE]
    /\ UNCHANGED <<pc, account, rsi, old_rsi, side, trade_file, today, log_file,
                   exchange, cycle, slept, flips, prev, fresh, phase,
                   trades_done>>

PollFails ==
    /\ pc = "poll"
    /\ order.status # "FILLED"
    /\ cyc' = [cyc EXCEPT !.err = "poll"]
    /\ side' = "none"
    /\ order' = NoOrder
    /\ pc' = "handler"
    /\ UNCHANGED <<account_file, account, rsi, old_rsi, trade_file, today,
                   log_file, exchange, cycle, slept, filled, flips, prev, fresh,
                   phase, trades_done>>

----------------------------------------------------------------------------
(* Lines 220-228: the trade log row, then the account file *)

\* the entry of trades_done for the trade_log call that is returning
Done == [day |-> today, side |-> side, fills |-> order.fills,
         price |-> PricePaid(order.fills)]

\* price_paid or trade_log raises before the row is appended: before anything
\* is written ("early"), after the activity line of line 165 ("none"), or
\* while the file of the day is created ("empty", "header")
TradeLogFails(how) ==
    /\ pc = "poll"
    /\ order.status = "FILLED"
    /\ how \in {"early", "none"} \/ ~trade_file[today].exists
    /\ log_file' = IF how = "early" THEN log_file ELSE Append(log_file, side)
    /\ trade_file' = [trade_file EXCEPT ![today] = TradeLogPartly(@, how)]
    /\ cyc' = [cyc EXCEPT !.err = "tradelog"]
    /\ side' = "none"
    /\ order' = NoOrder
    /\ pc' = "handler"
    /\ UNCHANGED <<account_file, account, rsi, old_rsi, today, exchange, cycle,
                   slept, filled, flips, prev, fresh, phase, trades_done>>

RecordTrade ==
    /\ pc = "poll"
    /\ order.status = "FILLED"
    /\ log_file' = Append(log_file, side)
    /\ trade_file' = [trade_file EXCEPT ![today] =
                         TradeLog(@, asset, side, PricePaid(order.fills), quantity)]
    /\ trades_done' = Append(trades_done, Done)
    /\ account_file' = Dumps(account)
    /\ flips' = IF Flipped(account_file, account_file') THEN flips + 1 ELSE flips
    /\ side' = "none"
    /\ order' = NoOrder
    /\ pc' = "sleep"
    /\ UNCHANGED <<account, rsi, old_rsi, today, exchange, cycle, slept, filled,
                   cyc, prev, fresh, phase>>

\* the row is appended, then the open or the write at lines 227-228 raises:
\* the file is untouched, or left empty by the open
SaveFails(f) ==
    /\ pc = "poll"
    /\ order.status = "FILLED"
    /\ f \in {account_file, Truncated}
    /\ log_file' = Append(log_file, side)
    /\ trade_file' = [trade_file EXCEPT ![today] =
                         TradeLog(@, asset, side, PricePaid(order.fills), quantity)]
    /\ trades_done' = Append(trades_done, Done)
    /\ account_file' = f
    /\ cyc' = [cyc EXCEPT !.err = "save"]
    /\ side' = "none"
    /\ order' = NoOrder
    /\ pc' = "handler"
    /\ UNCHANGED <<account, rsi, old_rsi, today, exchange, cycle, slept, filled,
                   flips, prev, fresh, phase>>

----------------------------------------------------------------------------
(* Lines 256-260: the sleep that ends a normal iteration, and the handler *)

Sleep ==
    /\ pc = "sleep"
    /\ slept' = TRUE
    /\ pc' = "top"
    /\ UNCHANGED <<account_file, account, rsi, old_rsi, side, order, trade_file,
                   today, log_file, exchange, cycle, filled, flips, cyc, prev,
                   fresh, phase, trades_done>>

HandleError ==
    /\ pc = "handler"
    /\ log_file' = Append(log_file, "ERROR")
    /\ pc' = AfterHandler
    /\ UNCHANGED <<account_file, account, rsi, old_rsi, side, order, trade_file,
                   today, exchange, cycle, slept, filled, flips, cyc, prev, fresh,
                   phase, trades_done>>

\* log raises inside the except clause (lines 140-148): nothing catches it
HandleErrorFails ==
    /\ pc = "handler"
    /\ pc' = "exit"
    /\ UNCHANGED <<account_file, account, rsi, old_rsi, side, order, trade_file,
                   today, log_file, exchange, cycle, slept, filled, flips, cyc,
                   prev, fresh, phase, trades_done>>

\* the calendar day changes while the script sleeps (lines 216 and 257)
Midnight ==
    /\ pc \in {"poll", "sleep"}
    /\ today < MaxDays
    /\ today' = today + 1
    /\ UNCHANGED <<pc, account_file, account, rsi, old_rsi, side, order,
                   trade_file, log_file, exchange, cycle, slept, filled, flips,
                   cyc, prev, fresh, phase, trades_done>>

Next ==
    \/ LoadAccount
    \/ LoadAccountCorrupt
    \/ \E f \in {NoFile, Truncated, JsonBuying, JsonSelling} : LoadAccountFails(f)
    \/ GetRsiFails
    \/ \E r \in RSIValues : NoSignal(r)
    \/ \E r \in RSIValues, st \in Statuses, fl \in ExchangeFills \cup {<<>>} :
          SubmitOrder(r, st, fl)
    \/ \E r \in RSIValues : SubmitFails(r)
    \/ \E st \in Statuses, fl \in ExchangeFills \cup {<<>>} : PollOrder(st, fl)
    \/ PollFails
    \/ \E how \in {"early", "none", "empty", "header"} : TradeLogFails(how)
    \/ RecordTrade
    \/ \E f \in {NoFile, Truncated, JsonBuying, JsonSelling} : SaveFails(f)
    \/ Sleep
    \/ HandleError
    \/ HandleErrorFails
    \/ Midnight

Spec == Init /\ [][Next]_vars

\* The script is one sequential thread: it always takes its next step. What a
\* call returns, and whether it raises, stays the environment's choice.
\* Liveness is checked over the first MaxLiveCycles iterations.
NextLive == Next /\ cycle' <= MaxLiveCycles

SpecLive == Init /\ [][NextLive]_vars /\ WF_vars(NextLive)

----------------------------------------------------------------------------
(* Claims C1-C10 *)

Defined(r) == r # NaN

\* the iteration ran without any exception so far in the run
NoFailure == \A i \in 1..Len(log_file) : log_file[i] # "ERROR"

\* the rows of a file of the trade log, and of all of them in day order
IsRow(line) == line # HeaderLine
Rows(file) == SelectSeq(file.lines, IsRow)
RECURSIVE RowsUpTo(_)
RowsUpTo(d) == IF d = 0 THEN <<>> ELSE RowsUpTo(d - 1) \o Rows(trade_file[d])
AllRows == RowsUpTo(MaxDays)

Sides == [i \in 1..Len(AllRows) |-> AllRows[i][2]]

\* C1: in a cycle that loaded is_buying = true and took two defined readings,
\* a BUY order is submitted iff current < entry and previous >= entry,
\* previous = entry included.
C1_BuyIffCrossing ==
    (cyc.evald /\ cyc.mode /\ Defined(rsi) /\ Defined(old_rsi))
        => ((cyc.order = "buy") <=> (rsi < entry /\ old_rsi >= entry))

\* C2: in a cycle that loaded is_buying = false and took two defined readings,
\* a SELL order is submitted iff current > exit and previous <= exit,
\* previous = exit included.
C2_SellIffCrossing ==
    (cyc.evald /\ ~cyc.mode /\ Defined(rsi) /\ Defined(old_rsi))
        => ((cyc.order = "sell") <=> (rsi > exit /\ old_rsi <= exit))

\* C3: no BUY order is submitted in a cycle that loaded is_buying = false and
\* no SELL order in a cycle that loaded is_buying = true, whatever the readings.
C3_SideGatedByMode ==
    cyc.loaded => /\ (cyc.order = "buy" => cyc.mode)
                  /\ (cyc.order = "sell" => ~cyc.mode)

\* C3 witness: a cycle in selling mode whose readings cross below entry, and
\* no order was submitted.
C3_Witness ==
    /\ cyc.evald /\ ~cyc.mode
    /\ Lt(rsi, entry) /\ Gt(old_rsi, entry)
    /\ cyc.order = "none"

\* C4: between iterations, the persisted is_buying has flipped as many times
\* as orders were observed FILLED.
C4_FlipsEqualFilled == pc = "top" => flips = filled

\* C5 (as stated): between the submission and the first observation of FILLED,
\* account.is_buying keeps the value it had before the trade.
C5_MemoryKeepsPreTradeValue ==
    (pc = "poll" /\ order.status # "FILLED") => account.is_buying = cyc.mode

\* C5 (amended): from the submission until do_trade goes past the polling loop,
\* the account file keeps its pre-trade content, while the in-memory
\* account.is_buying is already flipped.
C5_FileKeepsPreTradeValue ==
    pc = "poll" => /\ account_file = cyc.file
                   /\ Loads(account_file).is_buying = cyc.mode
                   /\ account.is_buying # cyc.mode

\* C5 witness: an order submitted and polled, not yet FILLED.
C5_Witness ==
    /\ pc = "poll" /\ order.status = "PARTIALLY_FILLED"
    /\ account.is_buying # cyc.mode
    /\ Loads(account_file).is_buying = cyc.mode

\* C6: when the submission or a poll raises, control reaches the handler after
\* a single submission call with the account file and the trade log as they
\* were before the trade, and the next cycle loads the pre-trade mode.
C6_FailedOrderLeavesState ==
    /\ (pc = "handler" /\ cyc.err \in {"submit", "poll"})
          => /\ account_file = cyc.file
             /\ trade_file = cyc.trades
             /\ cyc.calls = 1
    /\ (cyc.loaded /\ prev.err \in {"submit", "poll"}) => cyc.mode = prev.mode

\* C6 witness: the cycle after one whose poll raised has evaluated its signal.
C6_Witness ==
    /\ cyc.evald /\ prev.err = "poll"
    /\ account_file = cyc.file /\ trade_file = cyc.trades

\* C7: the loop never terminates because of a failure inside an iteration.
C7_LoopNeverTerminates == pc # "exit"

\* C8: every iteration but the first starts after a time.sleep(3) that
\* followed the previous one.
C8_SleepBetweenIterations == (pc = "top" /\ cycle > 0) => slept

\* C9: from a fresh account and with no failure, between iterations: before
\* the readings crossed below entry no trade is recorded; once they did, the
\* trades are BUY and the persisted is_buying is false; once they then crossed
\* above exit, the trades are BUY, SELL and the persisted is_buying is true.
C9_BuyThenSell ==
    (fresh /\ NoFailure /\ pc = "top") =>
        /\ phase = 0 => Sides = <<>>
        /\ phase = 1 => (Sides = <<"buy">> /\ account_file = JsonSelling)
        /\ phase = 2 => (Sides = <<"buy", "sell">> /\ account_file = JsonBuying)

\* C10 (as stated): a cycle with an undefined reading submits no order and
\* leaves the account file and the trade log as they were when it started.
C10_UndefinedReadingChangesNothing ==
    (cyc.evald /\ (rsi = NaN \/ old_rsi = NaN))
        => /\ cyc.order = "none"
           /\ account_file = cyc.file0
           /\ trade_file = cyc.trades

\* C10 (amended): a cycle with an undefined reading submits no order and
\* leaves the trade log as it was; the account file is as it was, except that
\* a missing one was created with the default account.
C10_UndefinedReadingNoOrder ==
    (cyc.evald /\ (rsi = NaN \/ old_rsi = NaN))
        => /\ cyc.order = "none"
           /\ account_file = FileAfterCreate(cyc.file0)
           /\ trade_file = cyc.trades

\* C10 witness: buying mode, the previous reading above entry, the current
\* one undefined, and no order.
C10_Witness ==
    /\ cyc.evald /\ cyc.mode
    /\ rsi = NaN /\ old_rsi > entry
    /\ cyc.order = "none" /\ pc = "sleep"

----------------------------------------------------------------------------
(* Claims C11-C19 *)

\* C11: an iteration takes at most one reading pair and makes at most one
\* submission call; the exchange receives at most one order in it, of the side
\* the signal chose, also after account.is_buying changed inside do_trade.
C11_AtMostOneOrder ==
    /\ cyc.reads <= 1
    /\ cyc.evald => cyc.reads = 1
    /\ cyc.calls <= 1
    /\ Len(exchange) - cyc.exch <= cyc.calls
    /\ Len(exchange) > cyc.exch => exchange[Len(exchange)] = cyc.order

\* C11 witness: an iteration that ended normally after one order, with the
\* in-memory mode changed since the load.
C11_Witness ==
    /\ pc = "sleep" /\ cyc.calls = 1 /\ cyc.reads = 1
    /\ account.is_buying # cyc.mode
    /\ Len(exchange) = cyc.exch + 1

\* the rows the trade_log calls that returned on day d should have left
ExpectedRows(d) ==
    LET OnDay(t) == t.day = d
        done == SelectSeq(trades_done, OnDay)
    IN  [i \in 1..Len(done) |->
            <<asset, done[i].side, quantity, ToString(done[i].price)>>]

\* C12: the trade log file of a day holds the header line once, first, and
\* then one row (symbol, side, quantity, price) per trade logged that day, in
\* order: N + 1 lines after N trades; without a trade there is no row.
C12_TradeLogLines ==
    \A d \in Days :
        IF trade_file[d].exists
        THEN /\ trade_file[d].lines = <<HeaderLine>> \o ExpectedRows(d)
             /\ Len(trade_file[d].lines) = Len(ExpectedRows(d)) + 1
        ELSE ExpectedRows(d) = <<>>

\* C13: an iteration that loaded the account read it from the account file,
\* after writing the default account {is_buying: true} when no file existed,
\* so a first run starts in buying mode; and no step removes the account file.
C13_AccountLoadedFromFile ==
    /\ [](cyc.loaded =>
            /\ cyc.file = (IF cyc.file0 = NoFile THEN JsonBuying ELSE cyc.file0)
            /\ cyc.mode = (cyc.file = JsonBuying)
            /\ account_file # NoFile)
    /\ [][account_file # NoFile => account_file' # NoFile]_vars

\* C13 witness: the first iteration of a first run evaluated its signal in
\* buying mode, on the file it created.
C13_Witness ==
    /\ cycle = 1 /\ fresh /\ cyc.file0 = NoFile
    /\ cyc.loaded /\ cyc.evald /\ cyc.mode
    /\ account_file = JsonBuying

\* the account file holding the mode opposite to the one loaded
FlippedFile == IF cyc.mode THEN JsonSelling ELSE JsonBuying

\* C15: while the order is not FILLED do_trade stays in the polling loop, in
\* the same iteration, with the account file and the trade log untouched, and
\* leaves it only by an exception; it returns only from a FILLED order, with
\* one more row and the flipped account persisted; and once FILLED is observed
\* do_trade does end, by returning or by raising.
C15_PollUntilFilled ==
    /\ []((pc = "poll" /\ order.status # "FILLED")
            => (account_file = cyc.file /\ trade_file = cyc.trades))
    /\ [][(pc = "poll" /\ order.status # "FILLED")
            => \/ /\ pc' = "poll" /\ cycle' = cycle
                  /\ account_file' = account_file /\ trade_file' = trade_file
               \/ pc' = "handler" /\ cyc'.err = "poll"]_vars
    /\ [][(pc = "poll" /\ pc' = "sleep")
            => /\ order.status = "FILLED"
               /\ Len(trades_done') = Len(trades_done) + 1
               /\ trade_file' # trade_file
               /\ account_file' = FlippedFile]_vars
    /\ ((pc = "poll" /\ order.status = "FILLED") ~> (pc \in {"sleep", "handler"}))

\* C15 witness: do_trade returned after get_order was called, the trade is
\* recorded and the flipped account is in the file.
C15_Witness ==
    /\ pc = "sleep" /\ cyc.polled /\ cyc.order # "none"
    /\ account_file = FlippedFile
    /\ trade_file # cyc.trades
    /\ Len(trades_done) > 0

\* the iteration before this one ended in an exception out of do_trade
DoTradeRaised == prev.err \in {"submit", "poll", "tradelog", "save"}

\* C16: in the iteration after one whose do_trade raised, the previous reading
\* is the reading that made the failed order, already past its threshold, and
\* no order is submitted; whenever an order is submitted the previous reading
\* is on the other side of the threshold from the current one.
C16_FailedCrossingNotRetried ==
    /\ (cyc.evald /\ DoTradeRaised)
         => /\ old_rsi = prev.rsi
            /\ prev.order = "buy" => Lt(old_rsi, entry)
            /\ prev.order = "sell" => Gt(old_rsi, exit)
            /\ cyc.order = "none" /\ cyc.calls = 0
            /\ Len(exchange) = cyc.exch
    /\ cyc.order = "buy" => (Gt(old_rsi, entry) /\ Lt(rsi, entry))
    /\ cyc.order = "sell" => (Lt(old_rsi, exit) /\ Gt(rsi, exit))

\* C16 witness: the buy order's submission raised, and the next iteration
\* reads a value still below the entry threshold in buying mode.
C16_Witness ==
    /\ pc = "sleep" /\ cyc.evald
    /\ prev.err = "submit" /\ prev.order = "buy"
    /\ account.is_buying /\ Lt(rsi, entry)
    /\ cyc.order = "none"

\* buy, sell, buy, ... starting with buy
Alternates(seq) ==
    \A i \in 1..Len(seq) : seq[i] = (IF i % 2 = 1 THEN "buy" ELSE "sell")

\* C17: at the start of every iteration of a run that began without an account
\* file, the file says is_buying exactly when the number of rows over all the
\* daily trade logs is even, and the rows alternate buy, sell, starting with
\* buy.
C17_ParityOfRecords ==
    (pc = "top" /\ fresh /\ account_file # Truncated) =>
        /\ (account_file \in {NoFile, JsonBuying}) <=> (Len(AllRows) % 2 = 0)
        /\ Alternates(Sides)

RECURSIVE CountSide(_, _)
CountSide(seq, sd) ==
    IF seq = <<>> THEN 0
    ELSE CountSide(Tail(seq), sd) + (IF Head(seq) = sd THEN 1 ELSE 0)

\* C18: in a run that began without an account file, the BUY orders accepted
\* by the exchange minus the SELL orders accepted is 0 or 1 at every moment,
\* and the accepted orders alternate BUY, SELL, starting with BUY.
C18_NoStackedPositions ==
    fresh =>
        /\ CountSide(exchange, "buy") - CountSide(exchange, "sell") \in {0, 1}
        /\ Alternates(exchange)

\* C19: an iteration that starts with the account file present and makes no
\* submission call leaves the account file and every daily trade log as they
\* were at its start; and any step that changes either of them is a step of
\* do_trade past a FILLED order, or the creation of the absent account file.
C19_NoOrderLeavesFiles ==
    /\ []((cyc.calls = 0 /\ cyc.file0 # NoFile)
            => (account_file = cyc.file0 /\ trade_file = cyc.trades))
    /\ [][(account_file' # account_file \/ trade_file' # trade_file)
            => \/ pc = "poll" /\ order.status = "FILLED"
               \/ pc = "top" /\ account_file = NoFile /\ trade_file' = trade_file]_vars

\* C19 witness: an iteration in selling mode, with one trade already in the
\* log, evaluated its readings and submitted nothing.
C19_Witness ==
    /\ pc = "sleep" /\ cyc.evald /\ cyc.calls = 0
    /\ cyc.file0 = JsonSelling /\ account_file = JsonSelling
    /\ Len(AllRows) = 1 /\ trade_file = cyc.trades

----------------------------------------------------------------------------
(* price_paid as a function of the fills (lines 220-225): do_trade at the
   point where the first BUY of a fresh account was reported FILLED, for every
   bounded fills list, followed by lines 220-228 *)

InitPrice ==
    /\ pc = "poll"
    /\ account_file = JsonBuying
    /\ fresh = TRUE
    /\ account = [bound |-> TRUE, is_buying |-> FALSE]
    /\ rsi = 20
    /\ old_rsi = 50
    /\ side = "buy"
    /\ order \in [status : {"FILLED"}, fills : FillLists]
    /\ trade_file = [d \in Days |-> NoTradeFile]
    /\ log_file = <<>>
    /\ exchange = <<"buy">>
    /\ cycle = 1
    /\ slept = FALSE
    /\ filled = 1
    /\ flips = 0
    /\ cyc = [file0 |-> NoFile, file |-> JsonBuying, trades |-> trade_file,
              loaded |-> TRUE, mode |-> TRUE, evald |-> TRUE, order |-> "buy",
              calls |-> 1, err |-> "none", reads |-> 1, exch |-> 0,
              filled0 |-> 0, polled |-> FALSE]
    /\ prev = [err |-> "none", loaded |-> FALSE, mode |-> TRUE, rsi |-> 50,
               order |-> "none"]
    /\ phase = 1
    /\ today = 1
    /\ trades_done = <<>>

NextPrice ==
    \/ RecordTrade
    \/ \E f \in {Truncated, JsonBuying} : SaveFails(f)

SpecPrice == InitPrice /\ [][NextPrice]_vars

\* C14: the price of every trade record is the quantity-weighted
\* average of the order's fills: price * sum(qty) = sum(price_i * qty_i).
C14_PriceIsWeightedAverage ==
    \A i \in 1..Len(trades_done) :
        trades_done[i].fills # <<>> =>
            trades_done[i].price * SumQty(trades_done[i].fills)
                = SumCost(trades_done[i].fills)

====
